---- MODULE Spec2Model ----
(***************************************************************************)
(* A model of shor_algm.py: the circuit builder optimized_ecd_log and its  *)
(* gate library, and the pipeline solve_ecd_log (build, simulate, read the *)
(* counts, scan the measured bit-strings inside [start_range, end_range]   *)
(* and verify each against the hard-coded RIPEMD-160 digest).              *)
(*                                                                         *)
(* Python integers are unbounded and the candidates are 67-bit numbers, so *)
(* an integer of the scan is a big natural: three limbs in base 2^24, the  *)
(* most significant first.  Strings are sequences of one-character strings.*)
(***************************************************************************)
EXTENDS Integers, Sequences, FiniteSets, TLC

VARIABLES pc, p, g, y, start_range, end_range, bit_length, qc, results, counts, idx,
          result, memo, hashed, converted, nBuilt, nSim, shotsRun

vars == <<pc, p, g, y, start_range, end_range, bit_length, qc, results, counts, idx,
          result, memo, hashed, converted, nBuilt, nSim, shotsRun>>

\* ----------------------------------------------------------------- bounds

\* The most distinct bit-strings one simulated distribution holds.
MaxKeys == 3

\* The widest circuit optimized_ecd_log is asked for when called on its own.
MaxWidth == 4

\* ------------------------------------------------------ program constants

\* bit_length = 67 in solve_ecd_log.
SolveBitLength == 67

\* assemble(transpiled_qc, shots=2048).
shots == 2048

\* The field width of f"{private_key_candidate:064x}".
HexWidth == 64

\* The literal of the comparison hashed_key == "7394...9371".
TargetDigest ==
    << "7","3","9","4","3","7","b","b","3","d","d","6","d","1","9","8",
       "3","e","6","6","6","2","9","c","5","f","0","8","c","7","0","e",
       "5","2","7","6","9","3","7","1" >>

\* What solve_ecd_log returned: nothing yet, None, or the candidate k.
NoResult == [ returned |-> FALSE ]
None == [ returned |-> TRUE, none |-> TRUE ]
Found(k) == [ returned |-> TRUE, none |-> FALSE, key |-> k ]

\* qc before optimized_ecd_log has returned.
NoCircuit == [ built |-> FALSE ]

\* ------------------------------------------------------- Python integers

Limb == 2^24

Zero == <<0, 0, 0>>

One == <<0, 0, 1>>

\* v * m + a for a small multiplier m and a small addend a (m, a <= 256); the
\* carry out of the top limb is dropped, which no 67-bit value reaches.
MulAdd(v, m, a) ==
    LET t0 == v[3] * m + a
        t1 == v[2] * m + (t0 \div Limb)
        t2 == v[1] * m + (t1 \div Limb)
    IN  << t2 % Limb, t1 % Limb, t0 % Limb >>

\* a <= b on Python integers.
LE(a, b) ==
    \/ a[1] < b[1]
    \/ a[1] = b[1] /\ a[2] < b[2]
    \/ a[1] = b[1] /\ a[2] = b[2] /\ a[3] <= b[3]

\* a + b on Python integers.
Add(a, b) ==
    LET t0 == a[3] + b[3]
        t1 == a[2] + b[2] + (t0 \div Limb)
        t2 == a[1] + b[1] + (t1 \div Limb)
    IN  << t2 % Limb, t1 % Limb, t0 % Limb >>

\* 2**q, for q below 72: one bit set in the limb that holds it.
Pow2(q) == [ i \in 1..3 |-> IF 3 - i = q \div 24 THEN 2 ^ (q % 24) ELSE 0 ]

HexDigits == << "0","1","2","3","4","5","6","7","8","9","a","b","c","d","e","f" >>

HexVal(c) == (CHOOSE i \in 1..16 : HexDigits[i] = c) - 1

\* The value of the binary digits s[from..to], most significant first (at most
\* 24 of them, so that it fits a limb).
RECURSIVE BinaryValue(_, _, _)
BinaryValue(s, from, to) ==
    IF to < from THEN 0
    ELSE 2 * BinaryValue(s, from, to - 1) + (IF s[to] = "1" THEN 1 ELSE 0)

\* int(measured_key, 2), for up to 72 digits: the last 24 digits are the low
\* limb, the 24 before them the middle limb, the rest the high limb.
int2(s) ==
    LET n == Len(s)
        Cut(i) == IF i < 0 THEN 0 ELSE i
    IN  << BinaryValue(s, 1, Cut(n - 48)),
           BinaryValue(s, Cut(n - 48) + 1, Cut(n - 24)),
           BinaryValue(s, Cut(n - 24) + 1, n) >>

\* int("...", 16), as the module reads its two range literals.
RECURSIVE IntBase16Upto(_, _)
IntBase16Upto(s, n) ==
    IF n = 0 THEN Zero ELSE MulAdd(IntBase16Upto(s, n - 1), 16, HexVal(s[n]))

int16(s) == IntBase16Upto(s, Len(s))

\* The six hexadecimal digits of one limb.
LimbHex(l) ==
    [ i \in 1..6 |-> HexDigits[((l \div (16 ^ (6 - i))) % 16) + 1] ]

\* A numeral without its leading zeros, its last digit kept in any case.
StripZeros(s) ==
    LET first == CHOOSE i \in 1..Len(s) :
                    /\ i = Len(s) \/ s[i] # "0"
                    /\ \A j \in 1..(i - 1) : s[j] = "0"
    IN  SubSeq(s, first, Len(s))

\* The one element of a singleton set: The({ F(x) : x \in {e} }) is F(e) with e
\* worked out once.
The(S) == CHOOSE x \in S : TRUE

\* format(k, "x"): the shortest hexadecimal numeral of k.
HexNumeral(k) ==
    The({ StripZeros(s) : s \in { LimbHex(k[1]) \o LimbHex(k[2]) \o LimbHex(k[3]) } })

\* f"{k:x}": the numeral with no padding.
FormatX(k) == HexNumeral(k)

\* A numeral padded on the left with "0" to at least w digits.
ZeroPadded(h, w) ==
    IF Len(h) >= w THEN h ELSE [ i \in 1..(w - Len(h)) |-> "0" ] \o h

\* f"{k:018x}": padded to the 9 bytes that 67 bits round up to.
Format018x(k) == The({ ZeroPadded(h, 18) : h \in { HexNumeral(k) } })

\* f"{k:064x}": the numeral, padded on the left with "0" to at least 64 digits.
Format064x(k) == The({ ZeroPadded(h, HexWidth) : h \in { HexNumeral(k) } })

\* bytes.fromhex(s): one byte per pair of digits; an odd count of digits raises
\* ValueError.
fromhex(s) ==
    IF Len(s) % 2 # 0 THEN [ raised |-> "ValueError" ]
    ELSE [ bytes |-> [ i \in 1..(Len(s) \div 2) |->
                         16 * HexVal(s[2 * i - 1]) + HexVal(s[2 * i]) ] ]

Raised(r) == "raised" \in DOMAIN r

\* bytes.hex(): two lower-case digits per byte.
hex(b) ==
    [ i \in 1..(2 * Len(b)) |->
        IF i % 2 = 1 THEN HexDigits[(b[(i + 1) \div 2] \div 16) + 1]
        ELSE HexDigits[(b[i \div 2] % 16) + 1] ]

\* ------------------------------------------------------------- hashlib

\* hashlib is outside the repository: RIPEMD-160 of SHA-256 is some fixed function
\* from byte strings to 20 bytes.  It is sampled where it is first applied and
\* remembered in memo, so that one input always hashes to one digest.  The values
\* it is sampled from: the bytes of the target, the target with its last hex digit
\* changed, the target with its first hex digit changed.
TargetBytes == fromhex(TargetDigest).bytes

NearMissBytes == [TargetBytes EXCEPT ![20] = TargetBytes[20] - 1]

FarBytes == [TargetBytes EXCEPT ![1] = TargetBytes[1] - 16]

DigestValues == {TargetBytes, NearMissBytes, FarBytes}

\* hashlib.new('ripemd160', hashlib.sha256(data).digest()).digest(): what it may be.
Ripemd160OfSha256(data) ==
    IF data \in DOMAIN memo THEN {memo[data]} ELSE DigestValues

Remember(data, d) ==
    [ x \in (DOMAIN memo) \cup {data} |-> IF x = data THEN d ELSE memo[x] ]

\* ripemd160_hash(data), given the 20 bytes d the two hashes produced.
ripemd160_hash(d) == hex(d)

\* -------------------------------------------------------- gate library

\* QuantumCircuit(nq, nc) with the instructions data.
QuantumCircuit(nq, nc, data) ==
    [ num_qubits |-> nq, num_clbits |-> nc, data |-> data ]

\* A gate of the main circuit, on the given qubits.
Instruction(name, qubits) == [ name |-> name, qubits |-> qubits ]

\* A gate of a sub-circuit: its name, its parameter (0 when it has none), then
\* the one or two qubits it acts on.
Gate1(name, param, q) == <<name, param, q>>

Gate2(name, param, q1, q2) == <<name, param, q1, q2>>

GateQubits(e) == SubSeq(e, 3, Len(e))

\* times copies of one gate in a row: a loop that appends the same gate 2**q
\* times is kept as one entry with its count.
Repeated(gate, times) == [ gate |-> gate, times |-> times ]

\* modular_exp building its circuit on bit_length qubits, the work qubit left out.
modular_exp_counting_width(base, exp, mod, bl) ==
    QuantumCircuit(bl, 0,
        IF exp = Zero THEN <<>> ELSE << Repeated(Gate2("cx", 0, 0, 1), exp) >>)

\* modular_exp choosing the target of its cx by the base.
modular_exp_reads_base(base, exp, mod, bl) ==
    QuantumCircuit(bl + 1, 0,
        IF exp = Zero THEN <<>>
        ELSE << Repeated(Gate2("cx", 0, 0, 1 + (base % bl)), exp) >>)

\* modular_exp(base, exp, mod, bit_length): exp copies of cx(0, 1) on
\* bit_length + 1 qubits; base and mod are not read.
modular_exp(base, exp, mod, bl) ==
    QuantumCircuit(bl + 1, 0,
        IF exp = Zero THEN <<>> ELSE << Repeated(Gate2("cx", 0, 0, 1), exp) >>)

\* The gates of qft(n) in the order the two loops append them: for each j, h(j),
\* then cp(pi / 2**(j-k), k, j) for k = 0..j-1.  Row j starts after the
\* j*(j+1)/2 gates of the rows before it; param is the exponent j - k of the
\* angle's denominator.
QftData(n) ==
    [ i \in 1..((n * (n + 1)) \div 2) |->
        LET j == CHOOSE r \in 0..(n - 1) :
                    (r * (r + 1)) \div 2 < i /\ i <= ((r + 1) * (r + 2)) \div 2
            k == i - (j * (j + 1)) \div 2 - 2
        IN  IF k < 0 THEN Gate1("h", 0, j)
            ELSE Gate2("cp", j - k, k, j) ]

\* qft(n).
qft(n) == QuantumCircuit(n, 0, QftData(n))

\* grover_amplification(n): h, x, h on every qubit in turn.
grover_amplification(n) ==
    QuantumCircuit(n, 0,
        [ i \in 1..(3 * n) |->
            Gate1(IF i % 3 = 2 THEN "x" ELSE "h", 0, (i - 1) \div 3) ])

\* range(n) as a list of qubit indices.
Range(n) == [ i \in 1..n |-> i - 1 ]

\* qc.append(sub, qargs).
Appended(stage, sub, qargs) ==
    [ name |-> "circuit", stage |-> stage, qubits |-> qargs, definition |-> sub ]

\* optimized_ecd_log(p, g, y, bit_length).
optimized_ecd_log(pp, gg, yy, bl) ==
    LET n_count == bl
        hadamard == [ i \in 1..n_count |-> Instruction("h", <<i - 1>>) ]
        oracle == [ q \in 1..n_count |->
                      Appended("modular_exp",
                               modular_exp(gg, Pow2(q - 1), pp, bl),
                               Range(n_count + 1)) ]
        fourier == << Appended("qft", qft(n_count), Range(n_count)) >>
        amplify == << Appended("grover_amplification",
                               grover_amplification(n_count), Range(n_count)) >>
        measure == [ i \in 1..n_count |->
                      [ name |-> "measure", qubits |-> <<i - 1>>,
                        clbits |-> <<i - 1>> ] ]
    IN  QuantumCircuit(n_count + 1, n_count,
                       hadamard \o oracle \o fourier \o amplify \o measure)

\* --------------------------------------------------------- the simulator

Rep(c, n) == [ i \in 1..n |-> c ]

\* The bit-strings the simulated backend is taken to report, each n characters
\* long: 0, 2^(n-1), 2^(n-1) + 1 and 2^n - 1.  For n = 67 they are the ends of
\* the range the module scans, the value after its start, and a value below it;
\* the ranges of RangePairs put each of them on, just inside and just outside
\* an end.
Outcomes(n) ==
    { Rep("0", n),
      <<"1">> \o Rep("0", n - 1),
      <<"1">> \o Rep("0", n - 2) \o <<"1">>,
      Rep("1", n) }

\* The orders distinct outcomes can be listed in, up to MaxKeys of them.
KeyLists(n) ==
    UNION { { s \in [1..m -> Outcomes(n)] :
                \A i, j \in 1..m : i # j => s[i] # s[j] } : m \in 0..MaxKeys }

\* results.get_counts(): an insertion-ordered dict from bit-string to count.  One
\* outcome takes every shot the others, seen once each, leave.
Distributions(n, nshots) ==
    { [ i \in 1..Len(s) |->
          [ key |-> s[i],
            count |-> IF i = h THEN nshots - (Len(s) - 1) ELSE 1 ] ] :
      <<s, h>> \in { sh \in KeyLists(n) \X (1..MaxKeys) :
                       sh[2] <= Len(sh[1]) \/ (sh[2] = 1 /\ Len(sh[1]) = 0) } }

\* The keys by falling count, equal counts in insertion order.
keysByCountDescending(c) ==
    LET place(i) == 1 + Cardinality({ j \in 1..Len(c) :
                          \/ c[j].count > c[i].count
                          \/ c[j].count = c[i].count /\ j < i })
    IN  [ n \in 1..Len(c) |-> c[CHOOSE i \in 1..Len(c) : place(i) = n].key ]

\* counts.keys(): the keys in insertion order.
keys(c) == [ i \in 1..Len(c) |-> c[i].key ]

\* ------------------------------------------------------------ the inputs

\* start_range = int("40000000000000000", 16), end_range = int("7ffffffffffffffff", 16).
ModuleStart == int16(<<"4">> \o Rep("0", 16))

ModuleEnd == int16(<<"7">> \o Rep("f", 16))

\* The ranges solve_ecd_log is called with: the module's own, one that leaves its
\* first value out, one below it that ends on it, an empty one (start > end) and
\* a single value.
RangePairs ==
    { <<ModuleStart, ModuleEnd>>,
      <<Add(ModuleStart, One), ModuleEnd>>,
      <<Zero, ModuleStart>>,
      <<Add(ModuleStart, One), ModuleStart>>,
      <<ModuleStart, ModuleStart>> }

\* (p, g, y) of a call of solve_ecd_log; the modulus may be zero or negative,
\* which nothing in the module forbids.
Params == { <<23, 5, 8>>, <<0, 2, 1234567890>>, <<-7, 3, 1>> }

\* (p, g, y) of a call of optimized_ecd_log on its own.
BuildParams == {-7, 0, 23, 97} \X {2, 5} \X {8, 1234567890}

\* ------------------------------------------------------------- the state

\* The state at the call of solve_ecd_log: nothing built, nothing hashed.
InitWith(params, ranges, widths) ==
    /\ pc = "start"
    /\ \E t \in params : p = t[1] /\ g = t[2] /\ y = t[3]
    /\ \E r \in ranges : start_range = r[1] /\ end_range = r[2]
    /\ bit_length \in widths
    /\ qc = NoCircuit
    /\ results = <<>>
    /\ counts = <<>>
    /\ idx = 0
    /\ result = NoResult
    /\ memo = <<>>
    /\ hashed = <<>>
    /\ converted = <<>>
    /\ nBuilt = 0
    /\ nSim = 0
    /\ shotsRun = 0

Init == InitWith(Params, RangePairs, {SolveBitLength})

\* qc = optimized_ecd_log(p, g, y, bit_length).
Build ==
    /\ pc = "start"
    /\ qc' = optimized_ecd_log(p, g, y, bit_length)
    /\ nBuilt' = nBuilt + 1
    /\ pc' = "built"
    /\ UNCHANGED <<p, g, y, start_range, end_range, bit_length, results, counts,
                   idx, result, memo, hashed, converted, nSim, shotsRun>>

\* transpile, assemble(shots=2048), backend.run(qobj).result(): the backend
\* answers with some distribution over bit-strings as long as the circuit has
\* classical bits.
Simulate ==
    /\ pc = "built"
    /\ \E c \in Distributions(qc.num_clbits, shots) : results' = c
    /\ nSim' = nSim + 1
    /\ shotsRun' = shotsRun + shots
    /\ pc' = "simulated"
    /\ UNCHANGED <<p, g, y, start_range, end_range, bit_length, qc, counts, idx,
                   result, memo, hashed, converted, nBuilt>>

\* counts = results.get_counts(), and the for loop starts on its first key.
GetCounts ==
    /\ pc = "simulated"
    /\ counts' = results
    /\ idx' = 1
    /\ pc' = "extracted"
    /\ UNCHANGED <<p, g, y, start_range, end_range, bit_length, qc, results,
                   result, memo, hashed, converted, nBuilt, nSim, shotsRun>>

\* The range test with its upper end forgotten.
InRangeNoUpper(k, lo, hi) == LE(lo, k)

\* start_range <= private_key_candidate <= end_range.
InRange(k, lo, hi) == LE(lo, k) /\ LE(k, hi)

\* The comparison on the first 39 digits only.
DigestMatchesPrefix(h) == SubSeq(h, 1, 39) = SubSeq(TargetDigest, 1, 39)

\* hashed_key == "739437bb3dd6d1983e66629c5f08c70e52769371".
DigestMatches(h) == h = TargetDigest

\* The loop starting over from the first key.
NextIndexRestart(i) == 1

\* The for loop moves to the key after the one at i.
NextIndex(i) == i + 1

\* One iteration of for measured_key in counts.keys().  Each local of the loop
\* body is bound once, where the body assigns it.
ScanStep ==
    /\ pc = "extracted"
    /\ idx <= Len(keys(counts))
    /\ \E measured_key \in { keys(counts)[idx] } :
       \E private_key_candidate \in { int2(measured_key) } :
          /\ converted' = Append(converted, idx)
          /\ IF ~InRange(private_key_candidate, start_range, end_range)
             THEN /\ idx' = NextIndex(idx)
                  /\ UNCHANGED <<pc, result, memo, hashed>>
             ELSE \E hex_string \in { Format064x(private_key_candidate) } :
                  \E converted_hex \in { fromhex(hex_string) } :
                     IF Raised(converted_hex)
                     THEN /\ pc' = "raised"
                          /\ UNCHANGED <<idx, result, memo, hashed>>
                     ELSE \E public_key_bytes \in { converted_hex.bytes } :
                          \E d \in Ripemd160OfSha256(public_key_bytes) :
                          \E hashed_key \in { ripemd160_hash(d) } :
                             /\ memo' = Remember(public_key_bytes, d)
                             /\ hashed' = Append(hashed,
                                   [ k |-> private_key_candidate,
                                     data |-> public_key_bytes,
                                     digest |-> hashed_key ])
                             /\ IF DigestMatches(hashed_key)
                                THEN /\ pc' = "returned"
                                     /\ result' = Found(private_key_candidate)
                                     /\ idx' = idx
                                ELSE /\ idx' = NextIndex(idx)
                                     /\ UNCHANGED <<pc, result>>
    /\ UNCHANGED <<p, g, y, start_range, end_range, bit_length, qc, results,
                   counts, nBuilt, nSim, shotsRun>>

\* The keys are used up: simulate again, once, before giving up.
ScanExhaustedRetry ==
    /\ pc = "extracted"
    /\ idx > Len(keys(counts))
    /\ IF nSim < 2
       THEN pc' = "built" /\ UNCHANGED result
       ELSE pc' = "returned" /\ result' = None
    /\ UNCHANGED <<p, g, y, start_range, end_range, bit_length, qc, results,
                   counts, idx, memo, hashed, converted, nBuilt, nSim, shotsRun>>

\* The keys are used up: return None.
ScanExhausted ==
    /\ pc = "extracted"
    /\ idx > Len(keys(counts))
    /\ pc' = "returned"
    /\ result' = None
    /\ UNCHANGED <<p, g, y, start_range, end_range, bit_length, qc, results,
                   counts, idx, memo, hashed, converted, nBuilt, nSim, shotsRun>>

Scan == ScanStep \/ ScanExhausted

Next == Build \/ Simulate \/ GetCounts \/ ScanStep \/ ScanExhausted

\* solve_ecd_log, from its call to its return.
Spec == Init /\ [][Next]_vars

\* solve_ecd_log called with one (p, g, y), the loop of a single-threaded
\* program running on once it is entered.
FairInit == InitWith({<<23, 5, 8>>}, RangePairs, {SolveBitLength})

FairSpec == FairInit /\ [][Next]_vars /\ WF_vars(Scan)

\* optimized_ecd_log called on its own, with widths 1..MaxWidth.
BuildInit == InitWith(BuildParams, {<<ModuleStart, ModuleEnd>>}, 1..MaxWidth)

BuildNext == Build

BuildSpec == BuildInit /\ [][BuildNext]_vars

\* ------------------------------------------------------- the properties

\* The integer of the i-th key of counts, in the order counts lists them.
CandidateOf(i) == int2(counts[i].key)

\* lo <= k <= hi for the range of this call.
Within(k) == LE(start_range, k) /\ LE(k, end_range)

\* The i-th key's integer was hashed and its digest was, or was not, the target.
Accepted(i) ==
    \E j \in 1..Len(hashed) :
        hashed[j].k = CandidateOf(i) /\ hashed[j].digest = TargetDigest

Rejected(i) ==
    \E j \in 1..Len(hashed) :
        hashed[j].k = CandidateOf(i) /\ hashed[j].digest # TargetDigest

IsFound == result # NoResult /\ result # None

\* C1: every candidate handed to ripemd160_hash, and the candidate returned if
\* one is, lies in [start_range, end_range], both ends included (whatever the
\* distribution and the range).
C1_OnlyInRange ==
    /\ \A j \in 1..Len(hashed) :
          LE(start_range, hashed[j].k) /\ LE(hashed[j].k, end_range)
    /\ IsFound => LE(start_range, result.key) /\ LE(result.key, end_range)

\* A candidate was returned although the loop had passed a key outside the range.
C1_Witness ==
    /\ IsFound
    /\ LE(start_range, end_range)
    /\ \E i \in 1..Len(counts) : i \in 1..Len(converted) /\ ~Within(CandidateOf(i))

\* C2: a returned candidate is the integer of a key of counts, and the digest
\* computed for it equals the target in all 40 positions; a candidate whose
\* digest differs from the target in some position is not the one returned.
C2_ExactDigest ==
    /\ IsFound =>
          /\ \E i \in 1..Len(counts) : result.key = CandidateOf(i)
          /\ \E j \in 1..Len(hashed) :
                /\ hashed[j].k = result.key
                /\ hashed[j].digest = hex(memo[hashed[j].data])
                /\ Len(hashed[j].digest) = 40
                /\ \A c \in 1..40 : hashed[j].digest[c] = TargetDigest[c]
    /\ \A j \in 1..Len(hashed) :
          (\E c \in 1..40 : hashed[j].digest[c] # TargetDigest[c])
             => result # Found(hashed[j].k)

\* A candidate was returned after another one's digest missed the target by its
\* last digit only.
C2_Witness ==
    /\ IsFound
    /\ \E j \in 1..Len(hashed) : hashed[j].digest = hex(NearMissBytes)

\* C3: once solve_ecd_log has returned: if it returned None, no key in range had
\* a matching digest; if it returned k, k is the integer of the first key, in
\* the order counts lists its keys, that is in range and matches, every key in
\* range before it was hashed and rejected, and the keys converted are exactly
\* those up to it, so that no later key was converted or hashed.
C3_FirstInKeyOrder ==
    pc = "returned" =>
       /\ result = None =>
             \A i \in 1..Len(counts) : Within(CandidateOf(i)) => Rejected(i)
       /\ result # None =>
             \E i \in 1..Len(counts) :
                /\ result = Found(CandidateOf(i))
                /\ Within(CandidateOf(i)) /\ Accepted(i)
                /\ \A j \in 1..(i - 1) :
                      Within(CandidateOf(j)) => Rejected(j) /\ ~Accepted(j)
                /\ converted = [ j \in 1..i |-> j ]
                /\ \A h \in 1..Len(hashed) :
                      \E j \in 1..i : hashed[h].k = CandidateOf(j)

\* The second key was returned, after the first was rejected, a third key with a
\* higher count than the one returned was left unread.
C3_Witness ==
    /\ pc = "returned" /\ Len(counts) = 3
    /\ result = Found(CandidateOf(2))
    /\ Rejected(1)
    /\ counts[3].count > counts[2].count
    /\ converted = <<1, 2>>

\* C4: solve_ecd_log never raises, and when it has returned, it returned None
\* exactly when every key of counts was converted and none of those in range had
\* a digest equal to the target.
C4_NoneIffAllRejected ==
    /\ pc # "raised"
    /\ pc = "returned" =>
          ( result = None <=>
              /\ converted = [ j \in 1..Len(counts) |-> j ]
              /\ \A i \in 1..Len(counts) :
                    Within(CandidateOf(i)) => Rejected(i) /\ ~Accepted(i) )

\* None was returned after a key out of range was skipped and two keys in range
\* were hashed and rejected.
C4_Witness ==
    /\ pc = "returned" /\ result = None
    /\ Len(counts) = 3 /\ Len(hashed) = 2
    /\ \E i \in 1..3 : ~Within(CandidateOf(i))

Rank(s) ==
    CASE s = "start" -> 0
      [] s = "built" -> 1
      [] s = "simulated" -> 2
      [] s = "extracted" -> 3
      [] OTHER -> 4

C5_Counts ==
    /\ nBuilt = (IF Rank(pc) >= 1 THEN 1 ELSE 0)
    /\ nSim = (IF Rank(pc) >= 2 THEN 1 ELSE 0)
    /\ shotsRun = nSim * 2048
    /\ (qc = NoCircuit) = (nBuilt = 0)
    /\ Rank(pc) < 3 => converted = <<>> /\ hashed = <<>> /\ counts = <<>>
    /\ (pc = "returned") = (result # NoResult)
    /\ pc \in {"start", "built", "simulated", "extracted", "returned"}

\* C5: a run goes start, built, simulated, extracted, returned, one stage at a
\* time and never back; the circuit is built once, the simulator is run once,
\* with 2048 shots, no key is converted before the counts exist, and once the
\* run has returned (a candidate, or None) nothing is built or simulated again.
C5_PipelineOrder ==
    /\ []C5_Counts
    /\ [][ /\ Rank(pc') \in {Rank(pc), Rank(pc) + 1}
           /\ nBuilt' >= nBuilt /\ nSim' >= nSim
           /\ pc = "returned" => pc' = "returned" ]_vars

\* The keys ran out after a candidate had been rejected, and the run returned
\* None on its one simulation.
C5_Witness ==
    /\ pc = "returned" /\ result = None
    /\ Len(hashed) >= 1 /\ nSim = 1 /\ nBuilt = 1

\* C6: with a modulus p <= 0 no circuit is produced and nothing is simulated.
C6_FailsFastOnBadModulus == p <= 0 => qc = NoCircuit /\ nSim = 0

\* The stages appended as sub-circuits, in order.
Stages(c) == SelectSeq(c.data, LAMBDA e : e.name = "circuit")

StagesNamed(c, n) == SelectSeq(Stages(c), LAMBDA e : e.stage = n)

\* The qubits a stage is attached to are distinct qubits of the circuit.
AttachedInside(c, e) ==
    /\ \A i \in 1..Len(e.qubits) : e.qubits[i] \in 0..(c.num_qubits - 1)
    /\ \A i, j \in 1..Len(e.qubits) : i # j => e.qubits[i] # e.qubits[j]

\* C7, as the spec states it: every stage declares counting_width qubits and is
\* attached to as many.
C7_EveryStageCountingWidth ==
    pc = "built" =>
       \A i \in 1..Len(Stages(qc)) :
          /\ Stages(qc)[i].definition.num_qubits = bit_length
          /\ Len(Stages(qc)[i].qubits) = Stages(qc)[i].definition.num_qubits

\* C7, amended: the circuit has counting_width + 1 qubits; the Hadamard stage
\* covers the counting_width counting qubits; qft and grover_amplification
\* declare counting_width qubits and each of the counting_width modular_exp
\* sub-circuits declares counting_width + 1; every stage is attached to exactly
\* as many qubits as it declares, all of them distinct qubits of the circuit, and
\* its own gates stay inside the width it declares.
C7_StageWidths ==
    pc = "built" =>
       /\ qc.num_qubits = bit_length + 1 /\ qc.num_clbits = bit_length
       /\ { e.qubits : e \in { qc.data[i] : i \in
               { i \in 1..Len(qc.data) : qc.data[i].name = "h" } } }
             = { <<q>> : q \in 0..(bit_length - 1) }
       /\ Len(StagesNamed(qc, "modular_exp")) = bit_length
       /\ Len(StagesNamed(qc, "qft")) = 1
       /\ Len(StagesNamed(qc, "grover_amplification")) = 1
       /\ Len(Stages(qc)) = bit_length + 2
       /\ \A i \in 1..Len(Stages(qc)) :
             LET e == Stages(qc)[i]
             IN  /\ e.definition.num_qubits =
                       (IF e.stage = "modular_exp" THEN bit_length + 1
                        ELSE bit_length)
                 /\ Len(e.qubits) = e.definition.num_qubits
                 /\ AttachedInside(qc, e)
                 /\ \A k \in 1..Len(e.definition.data) :
                       LET gate == IF e.stage = "modular_exp"
                                   THEN e.definition.data[k].gate
                                   ELSE e.definition.data[k]
                       IN  \A t \in 1..Len(GateQubits(gate)) :
                              GateQubits(gate)[t]
                                 \in 0..(e.definition.num_qubits - 1)

\* A circuit of width 3 built for a valid base and modulus.
C7_Witness ==
    /\ pc = "built" /\ bit_length = 3 /\ p = 23 /\ g = 5
    /\ Len(Stages(qc)) = 5

\* C8, as the spec states it: the bytes hashed for a candidate are as many as
\* the key's bit length rounded up to whole bytes (9 for 67 bits).
C8_WidthFromBitLength ==
    \A j \in 1..Len(hashed) : Len(hashed[j].data) = (bit_length + 7) \div 8

\* C8, amended: the bytes hashed for a candidate are always 32 (the 64 hex
\* digits of the format), whatever the candidate in [0, 2^67 - 1]: 23 zero
\* bytes, then the candidate's 9 bytes, most significant first.
C8_ThirtyTwoBytes ==
    \A j \in 1..Len(hashed) :
       LET d == hashed[j].data
       IN  /\ Len(d) = 32
           /\ \A i \in 1..32 : d[i] \in 0..255
           /\ \A i \in 1..23 : d[i] = 0
           /\ hashed[j].k = << d[24] * 65536 + d[25] * 256 + d[26],
                               d[27] * 65536 + d[28] * 256 + d[29],
                               d[30] * 65536 + d[31] * 256 + d[32] >>

\* The largest 67-bit candidate and the smallest candidate of the module's range
\* were both hashed.
C8_Witness ==
    /\ \E j \in 1..Len(hashed) : hashed[j].k = ModuleEnd
    /\ \E j \in 1..Len(hashed) : hashed[j].k = ModuleStart

C9_AtMostOnce ==
    /\ \A i, j \in 1..Len(converted) : i # j => converted[i] # converted[j]
    /\ Len(hashed) <= Len(converted)
    /\ Len(converted) <= Len(counts)
    /\ Cardinality({ counts[i].key : i \in 1..Len(counts) }) = Len(counts)
    /\ \A i \in 1..Len(counts) : counts[i].count >= 1
    /\ Len(counts) <= 2048

\* C9: once the counts are read the loop ends in a return, of a candidate or of
\* None; no key is converted twice, so the conversions, and the hashes, are at
\* most as many as the distinct keys, which are at most the 2048 shots.
C9_ScanTerminates ==
    /\ (pc = "extracted") ~> (pc = "returned")
    /\ []C9_AtMostOnce
    /\ [][idx' >= idx]_vars

\* Three keys were converted, one after the other, and the loop ended.
C9_Witness == pc = "returned" /\ converted = <<1, 2, 3>> /\ Len(hashed) >= 1

\* The circuit of a run that differs from any other in (p, g, y) only.
ReferenceCircuit == optimized_ecd_log(23, 5, 8, SolveBitLength)

\* The digest of the i-th key's candidate under the hash as sampled so far.
DigestOf(i) ==
    LET e == fromhex(Format064x(CandidateOf(i)))
    IN  IF Raised(e) THEN <<>>
        ELSE IF e.bytes \in DOMAIN memo THEN hex(memo[e.bytes]) ELSE <<>>

\* What a scan that reads counts, the range and the hash alone returns from key
\* i on, and the last key it reads.
RECURSIVE ReferenceScan(_)
ReferenceScan(i) ==
    IF i > Len(counts) THEN [ result |-> None, last |-> Len(counts) ]
    ELSE IF Within(CandidateOf(i)) /\ DigestOf(i) = TargetDigest
         THEN [ result |-> Found(CandidateOf(i)), last |-> i ]
         ELSE ReferenceScan(i + 1)

\* The sum of the counts of cx gates of the stages lo..hi of s.
RECURSIVE CxCopies(_, _, _)
CxCopies(s, lo, hi) ==
    IF hi < lo THEN Zero
    ELSE IF lo = hi
         THEN (IF s[lo].definition.data = <<>> THEN Zero
               ELSE s[lo].definition.data[1].times)
         ELSE Add(CxCopies(s, lo, (lo + hi) \div 2),
                  CxCopies(s, (lo + hi) \div 2 + 1, hi))

\* C10: whatever p, g and y are, the circuit built is the one built for the
\* reference parameters, its n oracle stages hold nothing but copies of cx(0, 1),
\* 2^q in stage q and 2^n - 1 in all, and the run converts the keys and returns
\* the result that counts, the range and the hash alone determine.
C10_IndependentOfPGY ==
    /\ qc # NoCircuit =>
          /\ qc = ReferenceCircuit
          /\ \A oracle \in { StagesNamed(qc, "modular_exp") } :
                /\ Len(oracle) = bit_length
                /\ \A q \in 1..bit_length :
                      oracle[q].definition.data
                         = << [ gate |-> <<"cx", 0, 0, 1>>,
                                times |-> Pow2(q - 1) ] >>
                /\ Add(CxCopies(oracle, 1, bit_length), One) = Pow2(bit_length)
    /\ pc = "returned" =>
          /\ result = ReferenceScan(1).result
          /\ converted = [ j \in 1..ReferenceScan(1).last |-> j ]

\* A run with a modulus, base and public value other than the reference's
\* returned a candidate after rejecting another.
C10_Witness ==
    /\ pc = "returned" /\ IsFound
    /\ p # 23 /\ g # 5 /\ y # 8
    /\ Len(hashed) = 2

====
